---- MODULE Spec2Model ----
(***************************************************************************)
(* Model of lowercase_cpp_hpp_files.py: the batch filename-case            *)
(* normaliser (convert_to_lowercase) and its reversal mode                 *)
(* (revert_lowercase_conversion), run over a small directory tree.         *)
(*                                                                         *)
(* A path and a file name are sequences of one-character strings, so that  *)
(* str.lower(), str.upper(), str.capitalize(), str.split('_'),             *)
(* str.startswith(), os.path.splitext() and os.path.join() are computed    *)
(* character by character as Python computes them.  File contents are      *)
(* sequences of bytes, so that os.path.getsize() is their length.          *)
(***************************************************************************)
EXTENDS Integers, Sequences, FiniteSets, TLC

VARIABLES
    ci,              \* TRUE iff the filesystem looks names up case-insensitively
    files,           \* the regular files of the tree: path -> bytes
    exclude_dirs,    \* argument of convert_to_lowercase
    revert_dirs,     \* argument of convert_to_lowercase
    pc,              \* position in convert_to_lowercase
    rd,              \* number of revert directories whose walk has started
    rq,              \* files of the current revert walk still to visit
    tried,           \* guesses of the file at Head(rq) that were tried and failed
    files_to_rename, \* the plans collected by the first pass
    lowercase_filename, \* the first pass's variable of that name, as the walk left it
    idx,             \* index of the next plan of the second pass
    renamed_files,   \* outcome lists
    skipped_files,
    reverted_files,
    uuid,            \* number of uuid.uuid4() calls made so far
    faults,          \* number of try blocks in which an operation was made to raise
    run,             \* number of the current invocation
    files0,          \* the tree before the first invocation
    argv,            \* sys.argv[1:] when the tool is run as a script, else <<>>
    status           \* exit status of the script; -1 while it has not exited

vars == <<ci, files, exclude_dirs, revert_dirs, pc, rd, rq, tried,
          files_to_rename, lowercase_filename, idx, renamed_files, skipped_files,
          reverted_files, uuid, faults, run, files0, argv, status>>

(***************************************************************************)
(* Bounds of the model.                                                    *)
(***************************************************************************)
MaxFiles == 2          \* files in the initial tree of a run with revert directories
MaxForwardFiles == 3   \* files in the initial tree of a forward-only run
MaxFaults == 1         \* try blocks in which a filesystem operation raises
MaxRuns == 2           \* forward-only invocations in succession
MaxMainFiles == 2      \* files in the initial tree of a run of the script

(***************************************************************************)
(* Characters and Python's str methods.                                    *)
(***************************************************************************)
UpperAlpha == <<"A","B","C","D","E","F","G","H","I","J","K","L","M",
                "N","O","P","Q","R","S","T","U","V","W","X","Y","Z">>
LowerAlpha == <<"a","b","c","d","e","f","g","h","i","j","k","l","m",
                "n","o","p","q","r","s","t","u","v","w","x","y","z">>
OtherChars == {"0","1","2","3","4","5","6","7","8","9","_",".","/"}
AllChars == {UpperAlpha[i] : i \in 1..26} \cup {LowerAlpha[i] : i \in 1..26}
            \cup OtherChars

LowerOf == [c \in AllChars |->
              IF \E i \in 1..26 : UpperAlpha[i] = c
              THEN LowerAlpha[CHOOSE i \in 1..26 : UpperAlpha[i] = c]
              ELSE c]
UpperOf == [c \in AllChars |->
              IF \E i \in 1..26 : LowerAlpha[i] = c
              THEN UpperAlpha[CHOOSE i \in 1..26 : LowerAlpha[i] = c]
              ELSE c]

\* str.lower()
Lower(s) == [i \in 1..Len(s) |-> LowerOf[s[i]]]
\* str.upper()
Upper(s) == [i \in 1..Len(s) |-> UpperOf[s[i]]]
\* str.capitalize(): first character upper-cased, the rest lower-cased
Capitalize(s) == [i \in 1..Len(s) |-> IF i = 1 THEN UpperOf[s[i]] ELSE LowerOf[s[i]]]
\* s[0].upper() + s[1:] if s else s
UpperFirst(s) == [i \in 1..Len(s) |-> IF i = 1 THEN UpperOf[s[i]] ELSE s[i]]
\* str.startswith(pre)
StartsWith(s, pre) ==
    /\ Len(pre) <= Len(s)
    /\ SubSeq(s, 1, Len(pre)) = pre
\* str.endswith(suf)
EndsWith(s, suf) ==
    /\ Len(suf) <= Len(s)
    /\ SubSeq(s, Len(s) - Len(suf) + 1, Len(s)) = suf

\* the index of the last occurrence of c in s, 0 if there is none
LastIndex(s, c) ==
    IF \E i \in 1..Len(s) : s[i] = c
    THEN CHOOSE i \in 1..Len(s) : s[i] = c /\ \A j \in (i+1)..Len(s) : s[j] # c
    ELSE 0

\* str.split('_'): the words between the underscores, empty words included
RECURSIVE SplitUnderscore(_)
SplitUnderscore(s) ==
    IF \A i \in 1..Len(s) : s[i] # "_"
    THEN <<s>>
    ELSE LET k == CHOOSE i \in 1..Len(s) : s[i] = "_" /\ \A j \in 1..(i-1) : s[j] # "_"
         IN  <<SubSeq(s, 1, k - 1)>> \o SplitUnderscore(SubSeq(s, k + 1, Len(s)))

\* ''.join(words)
RECURSIVE Concat(_)
Concat(ws) == IF ws = <<>> THEN <<>> ELSE Head(ws) \o Concat(Tail(ws))

(***************************************************************************)
(* os.path                                                                 *)
(***************************************************************************)
\* os.path.join(d, n) for a relative name n
Join(d, n) == d \o <<"/">> \o n
\* os.path.dirname(p)
Dirname(p) == SubSeq(p, 1, LastIndex(p, "/") - 1)
\* os.path.basename(p)
Basename(p) == SubSeq(p, LastIndex(p, "/") + 1, Len(p))
\* os.path.splitext(p): the extension starts at the last dot of the base name,
\* unless that dot only follows leading dots of the base name
SplitExt(p) ==
    LET slash == LastIndex(p, "/")
        dot == LastIndex(p, ".")
    IN  IF dot > slash /\ \E j \in (slash+1)..(dot-1) : p[j] # "."
        THEN <<SubSeq(p, 1, dot - 1), SubSeq(p, dot, Len(p))>>
        ELSE <<p, <<>>>>

DotCpp == <<".","c","p","p">>
DotHpp == <<".","h","p","p">>
\* filename.lower().endswith(('.cpp', '.hpp'))
IsSource(filename) ==
    EndsWith(Lower(filename), DotCpp) \/ EndsWith(Lower(filename), DotHpp)

(***************************************************************************)
(* The directory tree.  The directories are fixed; the files vary.         *)
(***************************************************************************)
Root == <<"/","r">>
Lib == <<"/","r","/","l","i","b">>
LibFoo == <<"/","r","/","l","i","b","f","o","o">>
Dirs == {Root, Lib, LibFoo}

FooHpp == <<"F","o","o",".","h","p","p">>
fooHpp == <<"f","o","o",".","h","p","p">>
FooHPP == <<"F","o","o",".","H","P","P">>
fooAltHpp == <<"f","o","o","_","a","l","t",".","h","p","p">>
fooAltHPP == <<"f","o","o","A","l","t",".","H","P","P">>
FooTxt == <<"F","o","o",".","t","x","t">>

\* the names a directory of the initial tree may hold
NamesIn(d) ==
    IF d = Lib THEN {FooHpp, fooHpp, FooHPP, fooAltHpp, fooAltHPP, FooTxt}
    ELSE IF d = LibFoo THEN {fooAltHPP}
    ELSE {FooHpp}
InitPaths == UNION {{Join(d, n) : n \in NamesIn(d)} : d \in Dirs}
\* the paths of the initial tree of a run with revert directories: lowercase
\* names revert looks at, a case variant of one of them, a file of the directory
\* whose path starts with the path of lib, and a file outside lib
RevertPaths ==
    {Join(Lib, n) : n \in {fooHpp, FooHPP, fooAltHpp}}
        \cup {Join(LibFoo, fooAltHPP), Join(Root, FooHpp)}
\* the paths of the initial tree of a run of the script
MainPaths == {Join(Lib, fooHpp), Join(Lib, FooHPP), Join(LibFoo, fooAltHPP)}

\* the byte contents a file of the initial tree may hold: three contents, two
\* of them of the same size, for the files with a non-lowercase name that can
\* meet a lowercase namesake; one fixed content for each of the others, that of
\* a file at an _alt name being different from all of them
Contents == {<<1>>, <<2>>, <<1, 1>>}
ContentsOf(p) ==
    IF Dirname(p) = Lib /\ Basename(p) = FooHpp THEN Contents
    ELSE IF Dirname(p) = Lib /\ Basename(p) = FooHPP THEN {<<1>>, <<2>>}
    ELSE IF Basename(p) = fooAltHpp THEN {<<1, 1>>}
    ELSE {<<1>>}

\* the argument lists the tool is called with
ExcludeChoices == {<<>>, <<Lib>>}
RevertChoices == {<<>>, <<Lib>>}

(***************************************************************************)
(* The filesystem: a function from the paths of the regular files to their *)
(* bytes.  Name lookup folds case iff ci.                                  *)
(***************************************************************************)
\* the directory entries the path p resolves to (none or one)
Lookup(fs, p) ==
    {q \in DOMAIN fs : IF ci THEN Lower(q) = Lower(p) ELSE q = p}
\* os.path.exists(p)
Exists(fs, p) == Lookup(fs, p) # {}
\* os.rename(src, dst) when src exists: POSIX rename replaces the entry dst resolves to
Rename(fs, src, dst) ==
    LET s == CHOOSE q \in Lookup(fs, src) : TRUE
        keep == (DOMAIN fs \ (Lookup(fs, src) \cup Lookup(fs, dst))) \cup {dst}
    IN  [q \in keep |-> IF q = dst THEN fs[s] ELSE fs[q]]
\* os.remove(p)
Remove(fs, p) == [q \in DOMAIN fs \ Lookup(fs, p) |-> fs[q]]
\* the bytes of the file p resolves to
Read(fs, p) == fs[CHOOSE q \in Lookup(fs, p) : TRUE]
\* os.path.getsize(p)
GetSize(fs, p) == Len(Read(fs, p))
\* the file names os.walk lists for directory d
ListDir(fs, d) == {Basename(q) : q \in {x \in DOMAIN fs : Dirname(x) = d}}
\* the directories os.walk(top) visits
WalkDirs(top) == {d \in Dirs : d = top \/ StartsWith(d, top \o <<"/">>)}

\* the trees of at most n files at the given paths an invocation may start from
Trees(fold, n, paths) ==
    {t \in UNION {[S -> Contents] : S \in {X \in SUBSET paths : Cardinality(X) <= n}} :
        /\ \A p \in DOMAIN t : t[p] \in ContentsOf(p)
        /\ fold => \A p, q \in DOMAIN t : Lower(p) = Lower(q) => p = q}

\* all orderings of a finite set
RECURSIVE Perms(_)
Perms(S) ==
    IF S = {} THEN {<<>>}
    ELSE UNION {{<<x>> \o t : t \in Perms(S \ {x})} : x \in S}

(***************************************************************************)
(* uuid.uuid4().hex, one fresh token per call                              *)
(***************************************************************************)
Digit == <<"0","1","2","3","4","5","6","7","8","9">>
Hex(n) == <<Digit[(n \div 10) + 1], Digit[(n % 10) + 1]>>
TempPrefix == <<"t","e","m","p","_">>
BackupPrefix == <<"b","a","c","k","u","p","_">>
AltSuffix == <<"_","a","l","t">>
\* a variant of the intermediate name without the token
TempPathNoToken(filepath, n) ==
    Join(Dirname(filepath), TempPrefix \o SplitExt(filepath)[2])

\* f"temp_{uuid.uuid4().hex}{os.path.splitext(filepath)[1]}" joined to the directory
TempPath(filepath, n) ==
    Join(Dirname(filepath), TempPrefix \o Hex(n) \o SplitExt(filepath)[2])
\* f"backup_{uuid.uuid4().hex}{os.path.splitext(lowercase_filepath)[1]}"
BackupPath(lowercase_filepath, n) ==
    Join(Dirname(lowercase_filepath), BackupPrefix \o Hex(n) \o SplitExt(lowercase_filepath)[2])
\* f"{splitext(lowercase_filename)[0]}_alt{splitext(lowercase_filename)[1]}" in the
\* directory of lowercase_filepath; lowercase_filename is the variable the first
\* pass assigned last, the second pass does not assign it
AltPath(lowercase_filepath, last_filename) ==
    Join(Dirname(lowercase_filepath),
         SplitExt(last_filename)[1] \o AltSuffix \o SplitExt(last_filename)[2])

(***************************************************************************)
(* convert_to_lowercase, first pass: the plans                             *)
(***************************************************************************)
\* the loop over exclude_dirs: root.startswith(exclude_dir)
ShouldExclude(root, excl) ==
    \E i \in 1..Len(excl) : StartsWith(root, excl[i])

\* a variant of the first pass without the test filename != lowercase_filename
PlansOfAnyCase(fs, root, excl) ==
    IF ShouldExclude(root, excl) THEN {}
    ELSE {<<Join(root, filename), Join(root, Lower(filename))>> :
            filename \in {f \in ListDir(fs, root) : IsSource(f)}}

\* a variant of the first pass that lowercases the stem and keeps the extension
PlansOfStemOnly(fs, root, excl) ==
    IF ShouldExclude(root, excl) THEN {}
    ELSE {<<Join(root, filename),
            Join(root, Lower(SplitExt(filename)[1]) \o SplitExt(filename)[2])>> :
            filename \in {f \in ListDir(fs, root) : IsSource(f) /\ f # Lower(f)}}

\* the (filepath, lowercase_filepath) pairs the walk appends for directory root
PlansOf(fs, root, excl) ==
    IF ShouldExclude(root, excl) THEN {}
    ELSE {<<Join(root, filename), Join(root, Lower(filename))>> :
            filename \in {f \in ListDir(fs, root) : IsSource(f) /\ f # Lower(f)}}

\* os.walk is top-down and lists one directory at a time: the paths of one
\* directory are adjacent, and a directory comes before the ones below it.
\* The order of the names within a directory is the filesystem's.
WalkOrder(paths) ==
    /\ \A i, j, k \in 1..Len(paths) :
         (i < j /\ j < k /\ Dirname(paths[i]) = Dirname(paths[k]))
            => Dirname(paths[j]) = Dirname(paths[i])
    /\ \A i, j \in 1..Len(paths) :
         (i < j) => ~StartsWith(Dirname(paths[i]), Dirname(paths[j]) \o <<"/">>)

\* the paths for which the first pass assigns lowercase_filename in directory root
SourcesOf(fs, root, excl) ==
    IF ShouldExclude(root, excl) THEN {}
    ELSE {Join(root, filename) : filename \in {f \in ListDir(fs, root) : IsSource(f)}}

\* the values files_to_rename and lowercase_filename may have after the first
\* pass: the plans in the order of the walk, and the lowercased name of the last
\* source file the walk came to (no value, here <<>>, if it came to none)
CollectPlans(fs, directory, excl) ==
    LET plans == UNION {PlansOf(fs, d, excl) : d \in WalkDirs(directory)}
        sources == UNION {SourcesOf(fs, d, excl) : d \in WalkDirs(directory)}
        Planned(p) == \E plan \in plans : plan[1] = p
        PlanSeq(o) == LET sel == SelectSeq(o, Planned)
                      IN  [i \in 1..Len(sel) |-> CHOOSE plan \in plans : plan[1] = sel[i]]
    IN  {[files_to_rename |-> PlanSeq(o),
          lowercase_filename |-> IF o = <<>> THEN <<>> ELSE Lower(Basename(o[Len(o)]))] :
            o \in {x \in Perms(sources) : WalkOrder(x)}}

(***************************************************************************)
(* convert_to_lowercase, second pass: one plan.  k is the operation that   *)
(* raises (0: none; 1: rename to the temporary name; 2: rename of the      *)
(* existing lowercase file to its backup name; 3: rename of the temporary  *)
(* file to the lowercase name; 4: getsize/open/read of the comparison;     *)
(* 5: remove of the backup, or its rename to the _alt name); rf says that  *)
(* the restoring rename of the except clause raises.                       *)
(***************************************************************************)
\* an os.rename(src, dst) call, with the names the directory of dst holds when
\* the call is made
RenameCall(fs, src, dst) == [src |-> src, dst |-> dst, names |-> ListDir(fs, Dirname(dst))]

\* the comparison of step 4: sizes first, then the bytes
Identical(fs, backup_filepath, lowercase_filepath) ==
    /\ GetSize(fs, backup_filepath) = GetSize(fs, lowercase_filepath)
    /\ Read(fs, backup_filepath) = Read(fs, lowercase_filepath)

\* a variant of step 4 that keeps the backup under the _alt name in every case
ResolveBackupKeepBoth(fs, backup_filepath, lowercase_filepath, last_filename) ==
    Rename(fs, backup_filepath, AltPath(lowercase_filepath, last_filename))

\* a variant of step 4 that leaves the backup of an identical file where it is
ResolveBackupNoRemove(fs, backup_filepath, lowercase_filepath, last_filename) ==
    IF Identical(fs, backup_filepath, lowercase_filepath)
    THEN fs
    ELSE Rename(fs, backup_filepath, AltPath(lowercase_filepath, last_filename))

\* step 4 when nothing raises: the backup is removed or kept under the _alt name
ResolveBackup(fs, backup_filepath, lowercase_filepath, last_filename) ==
    IF Identical(fs, backup_filepath, lowercase_filepath)
    THEN Remove(fs, backup_filepath)
    ELSE Rename(fs, backup_filepath, AltPath(lowercase_filepath, last_filename))

\* renamed_files.append((filepath, lowercase_filepath)), on both paths out of the try
RenamedEntry(plan, raised) == IF raised THEN <<>> ELSE <<plan>>

\* a variant of the except clause that records nothing
SkippedEntryNone(filepath, raised, step) == <<>>

\* skipped_files.append((filepath, str(e))); the reason is the step that raised
SkippedEntry(filepath, raised, step) == IF raised THEN <<<<filepath, step>>>> ELSE <<>>

\* a variant of the except clause that cleans the temporary file away
RestoreByRemoval(fs, temp_filepath, filepath, rf) ==
    IF Exists(fs, temp_filepath) /\ ~rf THEN Remove(fs, temp_filepath) ELSE fs

\* the except clause's attempt to restore the original state
Restore(fs, temp_filepath, filepath, rf) ==
    IF Exists(fs, temp_filepath) /\ ~rf THEN Rename(fs, temp_filepath, filepath) ELSE fs

ApplyPlan(fs, plan, last_filename, n, k, rf) ==
    LET filepath == plan[1]
        lowercase_filepath == plan[2]
        temp_filepath == TempPath(filepath, n)
        backup_filepath == BackupPath(lowercase_filepath, n + 1)
        \* Step 1
        e1 == k = 1 \/ ~Exists(fs, filepath)
        fs1 == IF e1 THEN fs ELSE Rename(fs, filepath, temp_filepath)
        \* Step 2
        backup == ~e1 /\ Exists(fs1, lowercase_filepath)
        e2 == backup /\ k = 2
        fs2 == IF backup /\ ~e2 THEN Rename(fs1, lowercase_filepath, backup_filepath) ELSE fs1
        \* Step 3
        e3 == ~e1 /\ ~e2 /\ k = 3
        fs3 == IF e1 \/ e2 \/ e3 THEN fs2 ELSE Rename(fs2, temp_filepath, lowercase_filepath)
        \* Step 4
        compare == backup /\ ~e2 /\ ~e3
        e4 == compare /\ k = 4
        e5 == compare /\ k = 5
        fs5 == IF compare /\ ~e4 /\ ~e5
               THEN ResolveBackup(fs3, backup_filepath, lowercase_filepath, last_filename)
               ELSE fs3
        raised == e1 \/ e2 \/ e3 \/ e4 \/ e5
        step == IF e1 THEN 1 ELSE IF e2 THEN 2 ELSE IF e3 THEN 3 ELSE IF e4 THEN 4 ELSE 5
        \* except
        fs6 == IF raised THEN Restore(fs5, temp_filepath, filepath, rf) ELSE fs5
    IN  [fs |-> fs6,
         renamed |-> RenamedEntry(plan, raised),
         skipped |-> SkippedEntry(filepath, raised, step),
         uuids |-> IF backup THEN 2 ELSE 1,
         injected |-> IF raised /\ k = step THEN 1 ELSE 0,
         used |-> /\ k = 0 \/ (raised /\ k = step)
                  /\ rf => (raised /\ Exists(fs5, temp_filepath))]

(***************************************************************************)
(* revert_lowercase_conversion                                             *)
(***************************************************************************)
\* capitalization_patterns, in the order of the list
Pattern1(s) == UpperFirst(s)
Pattern2(s) == Upper(s)
Pattern3(s) ==
    LET ws == SplitUnderscore(s)
    IN  Concat([i \in 1..Len(ws) |-> IF i = 1 THEN ws[i] ELSE Capitalize(ws[i])])
Pattern4(s) ==
    LET ws == SplitUnderscore(s)
    IN  Concat([i \in 1..Len(ws) |-> Capitalize(ws[i])])
PatternNames(name) == <<Pattern1(name), Pattern2(name), Pattern3(name), Pattern4(name)>>

\* case_map.get(ext.lower(), [ext.upper(), ext.capitalize()]); for cpp and hpp the
\* entries of case_map are these two values
ExtGuesses(ext) == {Upper(ext), Capitalize(ext)}

\* potential_original_names as the loops append to it, before list(set(...))
GuessList(filename) ==
    LET name == SplitExt(filename)[1]
        ext == Tail(SplitExt(filename)[2])
        ps == PatternNames(name)
        Of(i) == IF ps[i] # name
                 THEN <<ps[i] \o <<".">> \o Upper(ext), ps[i] \o <<".">> \o Capitalize(ext)>>
                 ELSE <<>>
    IN  Of(1) \o Of(2) \o Of(3) \o Of(4)
        \o <<Upper(name) \o <<".">> \o ext, Capitalize(name) \o <<".">> \o ext>>

\* potential_original_names after list(set(...)): a set, iterated in the order
\* of the hash table
PotentialOriginalNames(filename) ==
    LET name == SplitExt(filename)[1]
        ext == Tail(SplitExt(filename)[2])
        ps == PatternNames(name)
    IN  {ps[i] \o <<".">> \o e : i \in {j \in 1..4 : ps[j] # name}, e \in ExtGuesses(ext)}
        \cup {Upper(name) \o <<".">> \o ext, Capitalize(name) \o <<".">> \o ext}

\* similar_files: the names of the directory that equal filename up to case
SimilarFiles(fs, filepath) ==
    {f \in ListDir(fs, Dirname(filepath)) :
        Lower(f) = Lower(Basename(filepath)) /\ f # Basename(filepath)}

\* the files a walk of directory visits past the two filters on the name
RevertFiles(fs, directory) ==
    {Join(d, f) : <<d, f>> \in
        {x \in WalkDirs(directory) \X UNION {ListDir(fs, d) : d \in WalkDirs(directory)} :
            x[2] \in ListDir(fs, x[1]) /\ IsSource(x[2]) /\ x[2] = Lower(x[2])}}

\* a variant of the existence test that compares the names of the directory exactly
ViableExact(fs, filepath, done) ==
    {c \in PotentialOriginalNames(Basename(filepath)) \ done :
        Join(Dirname(filepath), c) \notin DOMAIN fs}

\* the guesses of filepath the loop has yet to try and does not skip as existing
Viable(fs, filepath, done) ==
    {c \in PotentialOriginalNames(Basename(filepath)) \ done :
        ~Exists(fs, Join(Dirname(filepath), c))}

\* one try block: filepath -> temporary name -> original_path.  k is the rename
\* that raises (0: none, 1: the first, 2: the second); rf says that the restoring
\* rename of the except clause raises.
RevertRename(fs, filepath, original_path, n, k, rf) ==
    LET temp_filepath == TempPath(filepath, n)
        e1 == k = 1 \/ ~Exists(fs, filepath)
        fs1 == IF e1 THEN fs ELSE Rename(fs, filepath, temp_filepath)
        e2 == ~e1 /\ k = 2
        fs2 == IF e1 \/ e2 THEN fs1 ELSE Rename(fs1, temp_filepath, original_path)
        raised == e1 \/ e2
        fs3 == IF raised THEN Restore(fs2, temp_filepath, filepath, rf) ELSE fs2
    IN  [fs |-> fs3,
         reverted |-> IF raised THEN <<>> ELSE <<<<filepath, original_path>>>>,
         raised |-> raised,
         injected |-> IF (e1 /\ k = 1) \/ e2 THEN 1 ELSE 0,
         used |-> /\ k = 0 \/ (e1 /\ k = 1) \/ e2
                  /\ rf => (raised /\ Exists(fs2, temp_filepath))]

(***************************************************************************)
(* The state machine                                                       *)
(***************************************************************************)
\* convert_to_lowercase is called on a tree of at most n files
Start(n, reverts, paths) ==
    /\ ci \in BOOLEAN
    /\ files \in Trees(ci, n, paths)
    /\ exclude_dirs \in ExcludeChoices
    /\ revert_dirs \in reverts
    /\ pc = "revert"
    /\ rd = 0
    /\ rq = <<>>
    /\ tried = {}
    /\ files_to_rename = <<>>
    /\ lowercase_filename = <<>>
    /\ idx = 1
    /\ renamed_files = <<>>
    /\ skipped_files = <<>>
    /\ reverted_files = <<>>
    /\ uuid = 0
    /\ faults = 0
    /\ run = 1
    /\ files0 = files
    /\ argv = <<>>
    /\ status = -1

Init == Start(MaxFiles, RevertChoices, RevertPaths)
InitForward == Start(MaxForwardFiles, {<<>>}, InitPaths)

\* for revert_dir in revert_dirs: the walk of the next revert directory starts
RevertWalk ==
    /\ pc = "revert" /\ rq = <<>> /\ rd < Len(revert_dirs)
    /\ rq' \in {o \in Perms(RevertFiles(files, revert_dirs[rd + 1])) : WalkOrder(o)}
    /\ rd' = rd + 1
    /\ tried' = {}
    /\ UNCHANGED <<ci, files, exclude_dirs, revert_dirs, pc, files_to_rename, lowercase_filename,
                   idx,
                   renamed_files, skipped_files, reverted_files, uuid, faults, run,
                   files0, argv, status>>

\* if similar_files: the file is renamed to a case variant found in the directory
RevertSimilar ==
    /\ pc = "revert" /\ rq # <<>>
    /\ SimilarFiles(files, Head(rq)) # {}
    /\ \E original_name \in SimilarFiles(files, Head(rq)), k \in 0..2, rf \in BOOLEAN :
         LET r == RevertRename(files, Head(rq), Join(Dirname(Head(rq)), original_name),
                               uuid, k, rf)
         IN  /\ r.used
             /\ faults + r.injected <= MaxFaults
             /\ files' = r.fs
             /\ reverted_files' = reverted_files \o r.reverted
             /\ faults' = faults + r.injected
    /\ uuid' = uuid + 1
    /\ rq' = Tail(rq)
    /\ tried' = {}
    /\ UNCHANGED <<ci, exclude_dirs, revert_dirs, pc, rd, files_to_rename, lowercase_filename,
                   idx,
                   renamed_files, skipped_files, run, files0, argv, status>>

\* elif potential_original_names: one iteration of the loop that reaches the try
RevertGuess ==
    /\ pc = "revert" /\ rq # <<>>
    /\ SimilarFiles(files, Head(rq)) = {}
    /\ Exists(files, Head(rq))
    /\ \E original_name \in Viable(files, Head(rq), tried), k \in 0..2, rf \in BOOLEAN :
         LET r == RevertRename(files, Head(rq), Join(Dirname(Head(rq)), original_name),
                               uuid, k, rf)
         IN  /\ r.used
             /\ faults + r.injected <= MaxFaults
             /\ files' = r.fs
             /\ reverted_files' = reverted_files \o r.reverted
             /\ faults' = faults + r.injected
             /\ rq' = IF r.raised THEN rq ELSE Tail(rq)
             /\ tried' = IF r.raised THEN tried \cup {original_name} ELSE {}
    /\ uuid' = uuid + 1
    /\ UNCHANGED <<ci, exclude_dirs, revert_dirs, pc, rd, files_to_rename, lowercase_filename,
                   idx,
                   renamed_files, skipped_files, run, files0, argv, status>>

\* the guesses that name the file itself while it is at filepath: os.path.exists
\* is true for them until the file is gone
OwnNames(filepath) ==
    {c \in PotentialOriginalNames(Basename(filepath)) :
        IF ci THEN Lower(c) = Lower(Basename(filepath)) ELSE c = Basename(filepath)}

\* the rest of the loop once a restoring rename has raised: the file is no longer
\* at filepath, so the first rename of every remaining iteration raises and the
\* tree stays as it is; each iteration draws one uuid.  The guesses that named the
\* file itself and came earlier in the order of the list were passed over with
\* continue while the file was there; the loop does not come back to them.
RevertGone ==
    /\ pc = "revert" /\ rq # <<>>
    /\ SimilarFiles(files, Head(rq)) = {}
    /\ ~Exists(files, Head(rq))
    /\ Viable(files, Head(rq), tried) # {}
    /\ \E passed \in SUBSET (Viable(files, Head(rq), tried) \cap OwnNames(Head(rq))) :
          uuid' = uuid + Cardinality(Viable(files, Head(rq), tried) \ passed)
    /\ rq' = Tail(rq)
    /\ tried' = {}
    /\ UNCHANGED <<ci, files, exclude_dirs, revert_dirs, pc, rd, files_to_rename,
                   lowercase_filename, idx,
                   renamed_files, skipped_files, reverted_files, faults, run, files0, argv, status>>

\* the loop ends without a break: every guess existed or failed
RevertMiss ==
    /\ pc = "revert" /\ rq # <<>>
    /\ SimilarFiles(files, Head(rq)) = {}
    /\ Viable(files, Head(rq), tried) = {}
    /\ rq' = Tail(rq)
    /\ tried' = {}
    /\ UNCHANGED <<ci, files, exclude_dirs, revert_dirs, pc, rd, files_to_rename,
                   lowercase_filename, idx,
                   renamed_files, skipped_files, reverted_files, uuid, faults, run,
                   files0, argv, status>>

\* first pass of convert_to_lowercase
Collect ==
    /\ pc = "revert" /\ rq = <<>> /\ rd = Len(revert_dirs)
    /\ \E c \in CollectPlans(files, Root, exclude_dirs) :
         /\ files_to_rename' = c.files_to_rename
         /\ lowercase_filename' = c.lowercase_filename
    /\ idx' = 1
    /\ pc' = "apply"
    /\ UNCHANGED <<ci, files, exclude_dirs, revert_dirs, rd, rq, tried,
                   renamed_files, skipped_files, reverted_files, uuid, faults, run,
                   files0, argv, status>>

\* second pass of convert_to_lowercase: one iteration
Apply ==
    /\ pc = "apply" /\ idx <= Len(files_to_rename)
    /\ \E k \in 0..5, rf \in BOOLEAN :
         LET r == ApplyPlan(files, files_to_rename[idx], lowercase_filename, uuid, k, rf)
         IN  /\ r.used
             /\ faults + r.injected <= MaxFaults
             /\ files' = r.fs
             /\ renamed_files' = renamed_files \o r.renamed
             /\ skipped_files' = skipped_files \o r.skipped
             /\ uuid' = uuid + r.uuids
             /\ faults' = faults + r.injected
    /\ idx' = idx + 1
    /\ UNCHANGED <<ci, exclude_dirs, revert_dirs, pc, rd, rq, tried, files_to_rename,
                   lowercase_filename, reverted_files, run, files0, argv, status>>

\* return renamed_files, skipped_files, reverted_files
Return ==
    /\ pc = "apply" /\ idx > Len(files_to_rename)
    /\ pc' = "done"
    /\ UNCHANGED <<ci, files, exclude_dirs, revert_dirs, rd, rq, tried, files_to_rename,
                   lowercase_filename, idx, renamed_files, skipped_files, reverted_files,
                   uuid, faults, run, files0, argv, status>>

\* the tool is invoked again, with the same arguments, on the tree left by a pass
\* in which no operation was made to raise
Rerun ==
    /\ pc = "done" /\ run < MaxRuns /\ faults = 0
    /\ run' = run + 1
    /\ pc' = "revert"
    /\ rd' = 0
    /\ rq' = <<>>
    /\ tried' = {}
    /\ files_to_rename' = <<>>
    /\ lowercase_filename' = <<>>
    /\ idx' = 1
    /\ renamed_files' = <<>>
    /\ skipped_files' = <<>>
    /\ reverted_files' = <<>>
    /\ UNCHANGED <<ci, files, exclude_dirs, revert_dirs, uuid, faults, files0, argv, status>>

(***************************************************************************)
(* main: the script run from the command line on the directory Root        *)
(***************************************************************************)
\* str.split(','): the words between the commas, empty words included
RECURSIVE SplitComma(_)
SplitComma(s) ==
    IF \A i \in 1..Len(s) : s[i] # ","
    THEN <<s>>
    ELSE LET k == CHOOSE i \in 1..Len(s) : s[i] = "," /\ \A j \in 1..(i-1) : s[j] # ","
         IN  <<SubSeq(s, 1, k - 1)>> \o SplitComma(SubSeq(s, k + 1, Len(s)))

\* os.path.isdir(p): the directories of the tree are fixed, a file is not one
IsDir(p) == \E d \in Dirs : IF ci THEN Lower(d) = Lower(p) ELSE d = p

ExcludeFlag == <<"-","-","e","x","c","l","u","d","e">>
RevertFlag == <<"-","-","r","e","v","e","r","t">>
ForceFlag == <<"-","-","f","o","r","c","e">>
LibName == <<"l","i","b">>
\* a path that is no directory: a regular file of the tree, or nothing
NoDir == Join(Root, FooHpp)
\* the command lines the script is run with, sys.argv[1:]
ArgChoices ==
    {<<>>, <<NoDir>>, <<NoDir, ExcludeFlag, Lib>>, <<Root>>,
     <<Root, ExcludeFlag, Lib>>, <<Root, RevertFlag, Lib>>,
     <<Root, ExcludeFlag, Lib \o <<",">> \o LibFoo>>,
     <<Root, ExcludeFlag, Lib, RevertFlag, Lib>>,
     <<Root, ForceFlag>>, <<Root, RevertFlag>>, <<Root, RevertFlag, Lib, ForceFlag>>}

\* a variant of the argument loop that steps over an argument it does not know
RECURSIVE ParseArgsLenient(_, _, _, _)
ParseArgsLenient(args, i, excl, rev) ==
    IF i > Len(args) THEN [ok |-> TRUE, exclude_dirs |-> excl, revert_dirs |-> rev]
    ELSE IF args[i] = ExcludeFlag /\ i + 1 <= Len(args)
    THEN ParseArgsLenient(args, i + 2, SplitComma(args[i + 1]), rev)
    ELSE IF args[i] = RevertFlag /\ i + 1 <= Len(args)
    THEN ParseArgsLenient(args, i + 2, excl, SplitComma(args[i + 1]))
    ELSE ParseArgsLenient(args, i + 1, excl, rev)

\* the while loop over sys.argv from index 2 on; args[i] is sys.argv[i].
\* ok is FALSE when the loop ends in sys.exit(1) on an unknown argument.
RECURSIVE ParseArgs(_, _, _, _)
ParseArgs(args, i, excl, rev) ==
    IF i > Len(args) THEN [ok |-> TRUE, exclude_dirs |-> excl, revert_dirs |-> rev]
    ELSE IF args[i] = ExcludeFlag /\ i + 1 <= Len(args)
    THEN ParseArgs(args, i + 2, SplitComma(args[i + 1]), rev)
    ELSE IF args[i] = RevertFlag /\ i + 1 <= Len(args)
    THEN ParseArgs(args, i + 2, excl, SplitComma(args[i + 1]))
    ELSE [ok |-> FALSE, exclude_dirs |-> excl, revert_dirs |-> rev]

\* "Default exclude lib/ if not specified and not reverting"
DefaultExclude(directory, excl, rev) ==
    IF excl = <<>> /\ rev = <<>> /\ IsDir(Join(directory, LibName))
    THEN <<Join(directory, LibName)>>
    ELSE excl

\* main up to the call of convert_to_lowercase: the usage error, the test of the
\* directory, the argument loop and the default exclusion
MainStart ==
    /\ pc = "main"
    /\ LET parsed == ParseArgs(argv, 2, <<>>, <<>>)
           exits == Len(argv) < 1 \/ ~IsDir(argv[1]) \/ ~parsed.ok
       IN  /\ pc' = IF exits THEN "exit" ELSE "revert"
           /\ status' = IF exits THEN 1 ELSE -1
           /\ exclude_dirs' = IF exits THEN <<>>
                              ELSE DefaultExclude(argv[1], parsed.exclude_dirs,
                                                  parsed.revert_dirs)
           /\ revert_dirs' = IF exits THEN <<>> ELSE parsed.revert_dirs
    /\ UNCHANGED <<ci, files, rd, rq, tried, files_to_rename, lowercase_filename, idx,
                   renamed_files, skipped_files, reverted_files, uuid, faults, run,
                   files0, argv>>

\* main after the call: the summary is printed and the script ends, status 0
MainEnd ==
    /\ pc = "done"
    /\ pc' = "exit"
    /\ status' = 0
    /\ UNCHANGED <<ci, files, exclude_dirs, revert_dirs, rd, rq, tried, files_to_rename,
                   lowercase_filename, idx, renamed_files, skipped_files, reverted_files,
                   uuid, faults, run, files0, argv>>

\* the script is started on a tree of at most MaxMainFiles files
InitMain ==
    /\ ci \in BOOLEAN
    /\ files \in Trees(ci, MaxMainFiles, MainPaths)
    /\ argv \in ArgChoices
    /\ status = -1
    /\ exclude_dirs = <<>>
    /\ revert_dirs = <<>>
    /\ pc = "main"
    /\ rd = 0
    /\ rq = <<>>
    /\ tried = {}
    /\ files_to_rename = <<>>
    /\ lowercase_filename = <<>>
    /\ idx = 1
    /\ renamed_files = <<>>
    /\ skipped_files = <<>>
    /\ reverted_files = <<>>
    /\ uuid = 0
    /\ faults = 0
    /\ run = 1
    /\ files0 = files

\* one invocation, with or without revert directories
Next ==
    \/ RevertWalk
    \/ RevertSimilar
    \/ RevertGuess
    \/ RevertGone
    \/ RevertMiss
    \/ Collect
    \/ Apply
    \/ Return

\* forward-only invocations in succession
NextForward ==
    \/ Collect
    \/ Apply
    \/ Return
    \/ Rerun

\* one run of the script
NextMain ==
    \/ MainStart
    \/ RevertWalk
    \/ RevertSimilar
    \/ RevertGuess
    \/ RevertGone
    \/ RevertMiss
    \/ Collect
    \/ Apply
    \/ Return
    \/ MainEnd

Spec == Init /\ [][Next]_vars
SpecMain == InitMain /\ [][NextMain]_vars
SpecForward == InitForward /\ [][NextForward]_vars

(***************************************************************************)
(* Properties                                                              *)
(***************************************************************************)
\* the directory's path begins with one of the excluded prefixes
UnderExcludedPrefix(d) ==
    \E i \in 1..Len(exclude_dirs) : Len(exclude_dirs[i]) <= Len(d)
                                    /\ \A j \in 1..Len(exclude_dirs[i]) : d[j] = exclude_dirs[i][j]
\* the directory is walked by one of the revert directories
InRevertDir(d) == \E j \in 1..Len(revert_dirs) : d \in WalkDirs(revert_dirs[j])
\* the first components of a list of pairs
Firsts(pairs) == {pairs[i][1] : i \in 1..Len(pairs)}
\* the second components of a list of pairs
Seconds(pairs) == {pairs[i][2] : i \in 1..Len(pairs)}
\* the file keeps its path and its bytes over the step
Kept(p) == p \in DOMAIN files' /\ files'[p] = files[p]

\* C1: forward normalization loses no data under rename collisions: when no
\* filesystem operation fails, every byte content a file of a directory held
\* before the run is held by some file of that directory after the run.
C1_NoDataLoss ==
    (pc = "done" /\ run = 1 /\ revert_dirs = <<>> /\ faults = 0 /\ skipped_files = <<>>)
        => \A p \in DOMAIN files0 :
              \E q \in DOMAIN files : Dirname(q) = Dirname(p) /\ files[q] = files0[p]

\* C2: reversal never overwrites: a step of revert mode leaves every file other
\* than the one it is reverting at its path with its bytes, so no existing path
\* (a case variant found in the directory, or a guess) is the target of a rename.
C2_RevertNeverOverwrites ==
    [][(pc = "revert" /\ rq # <<>>)
          => \A p \in DOMAIN files \ Lookup(files, Head(rq)) : Kept(p)]_vars

\* C3: forward normalization is skipped for a revert directory: no file of a
\* revert directory is renamed to its lowercase form, and a file reverted there
\* has its reverted name when the run ends.
C3_ForwardSkipsRevertDirs ==
    /\ \A p \in Firsts(renamed_files) : ~InRevertDir(Dirname(p))
    /\ pc = "done" => \A q \in Seconds(reverted_files) : q \in DOMAIN files

\* C4: exclusion respected: in any run, with any exclude_dirs and revert_dirs,
\* no step renames a file whose directory lies under an excluded prefix,
\* whatever the case of its name.
C4_ExcludedNeverRenamed ==
    [][\A p \in DOMAIN files : UnderExcludedPrefix(Dirname(p)) => Kept(p)]_vars

\* the whole tree is one directory d holding the non-lowercase source file n and
\* its lowercase namesake
PairIn(d, n) ==
    /\ n # Lower(n) /\ IsSource(n)
    /\ DOMAIN files0 = {Join(d, n), Join(d, Lower(n))}
\* a forward-only first run has ended and no operation raised
ForwardDone ==
    /\ pc = "done" /\ run = 1 /\ revert_dirs = <<>>
    /\ faults = 0 /\ skipped_files = <<>>

\* C5: collision with divergence: for a directory holding exactly Foo.hpp and
\* foo.hpp with different bytes on a case-sensitive filesystem, after forward
\* normalization foo.hpp holds the bytes of Foo.hpp, foo_alt.hpp holds the bytes
\* foo.hpp had, and the directory holds no other file.  The code names the kept
\* file after lowercase_filename, which is the name of the last source file of
\* the first pass's walk and need not be a name of this directory.
C5_CollisionDivergence ==
    (/\ ForwardDone /\ ~ci /\ ~UnderExcludedPrefix(Lib)
     /\ ListDir(files0, Lib) = {FooHpp, fooHpp}
     /\ files0[Join(Lib, FooHpp)] # files0[Join(Lib, fooHpp)])
        => /\ ListDir(files, Lib) = {fooHpp, fooAltHpp}
           /\ files[Join(Lib, fooHpp)] = files0[Join(Lib, FooHpp)]
           /\ files[Join(Lib, fooAltHpp)] = files0[Join(Lib, fooHpp)]

\* C6: collision correctness: for a tree that is one directory holding a
\* non-lowercase source file and its lowercase namesake with identical bytes,
\* after forward normalization exactly the lowercase name remains, with that
\* content (so no _alt file and no backup file), and the run reports 1 renamed,
\* 0 skipped, 0 reverted.
C6_CollisionIdentical ==
    \A n \in {FooHpp, FooHPP} :
        (/\ ForwardDone /\ ~UnderExcludedPrefix(Lib)
         /\ PairIn(Lib, n)
         /\ files0[Join(Lib, n)] = files0[Join(Lib, Lower(n))])
            => /\ DOMAIN files = {Join(Lib, Lower(n))}
               /\ files[Join(Lib, Lower(n))] = files0[Join(Lib, n)]
               /\ Len(renamed_files) = 1
               /\ Len(skipped_files) = 0
               /\ Len(reverted_files) = 0

\* C6 witness: such a run has ended.
C6_Witness ==
    /\ ForwardDone /\ ~UnderExcludedPrefix(Lib)
    /\ PairIn(Lib, FooHpp)
    /\ files0[Join(Lib, FooHpp)] = files0[Join(Lib, fooHpp)]
    /\ renamed_files = <<<<Join(Lib, FooHpp), Join(Lib, fooHpp)>>>>

\* C7: idempotence: when forward normalization is run again after a pass in which
\* no operation raised, the later pass collects no plan and changes no file.
C7_Idempotent ==
    [][(run >= 2 /\ revert_dirs = <<>> /\ faults = 0)
          => (files_to_rename' = <<>> /\ files' = files)]_vars

\* C7 witness: a second pass has ended after a first pass that resolved a
\* collision of files with different bytes and raised nothing.
C7_Witness ==
    /\ run = 2 /\ pc = "done" /\ faults = 0
    /\ \E p \in DOMAIN files : p \notin DOMAIN files0 /\ Basename(p) = fooAltHpp

\* C8: reversal miss: a file the revert walk visits and does not revert (every
\* candidate existed or its rename raised) appears in the skipped outcomes of
\* the run.
C8_MissIsSkipped ==
    pc = "done"
        => \A j \in 1..Len(revert_dirs) :
              \A f \in RevertFiles(files0, revert_dirs[j]) :
                  f \notin Firsts(reverted_files) => f \in Firsts(skipped_files)

\* the plans the second pass has gone through
Attempted == SubSeq(files_to_rename, 1, idx - 1)
\* the elements of a list
Range(list) == {list[i] : i \in 1..Len(list)}

\* C9: failure isolation: a raising operation never aborts the run; the plans are
\* attempted once each in collection order, each one ends in exactly one of the
\* renamed list and the skipped list, so when the run ends
\* len(renamed) + len(skipped) is the number of plans.
C9_FailureIsolation ==
    (pc = "apply" \/ pc = "done")
        => /\ Len(renamed_files) + Len(skipped_files) = idx - 1
           /\ pc = "done" => idx - 1 = Len(files_to_rename)
           /\ \A i \in 1..(idx - 1) :
                 (files_to_rename[i] \in Range(renamed_files))
                    # (files_to_rename[i][1] \in Firsts(skipped_files))
           /\ renamed_files =
                 SelectSeq(Attempted, LAMBDA pl : pl \in Range(renamed_files))
           /\ [i \in 1..Len(skipped_files) |-> skipped_files[i][1]] =
                 [i \in 1..Len(SelectSeq(Attempted, LAMBDA pl : pl[1] \in Firsts(skipped_files)))
                    |-> SelectSeq(Attempted, LAMBDA pl : pl[1] \in Firsts(skipped_files))[i][1]]

\* C9 witness: a run has ended in which a plan was skipped after a raise and a
\* plan collected after it was renamed.
C9_Witness ==
    /\ pc = "done"
    /\ \E i, j \in 1..Len(files_to_rename) :
          /\ i < j
          /\ files_to_rename[i][1] \in Firsts(skipped_files)
          /\ files_to_rename[j] \in Range(renamed_files)

\* the file is a source file outside every excluded prefix
InScope(p) == IsSource(Basename(p)) /\ ~UnderExcludedPrefix(Dirname(p))
\* where forward normalization is to leave the file
Canonical(p) == IF InScope(p) THEN Join(Dirname(p), Lower(Basename(p))) ELSE p
\* no two in-scope files of one directory share a lowercase name
NoSharedName ==
    \A p, q \in DOMAIN files0 :
        (InScope(p) /\ InScope(q) /\ Canonical(p) = Canonical(q)) => p = q

\* C10: plain forward rename: in a tree where no two in-scope files of one
\* directory share a lowercase name, when no operation raises, every in-scope
\* file with a non-lowercase name ends under its lowercase name in its directory
\* with its bytes, its old name is gone, the other files are untouched, and the
\* run reports that many renamed, 0 skipped, 0 reverted.
C10_PlainForward ==
    (ForwardDone /\ NoSharedName)
        => /\ DOMAIN files = {Canonical(p) : p \in DOMAIN files0}
           /\ \A p \in DOMAIN files0 : files[Canonical(p)] = files0[p]
           /\ Firsts(renamed_files) = {p \in DOMAIN files0 : Canonical(p) # p}
           /\ Len(renamed_files) = Cardinality({p \in DOMAIN files0 : Canonical(p) # p})
           /\ Len(skipped_files) = 0
           /\ Len(reverted_files) = 0

\* C10 witness: such a run has ended having renamed a file with an upper-case
\* extension beside an out-of-scope file and an already lowercase file.
C10_Witness ==
    /\ ForwardDone /\ NoSharedName
    /\ Join(Lib, FooHPP) \in Firsts(renamed_files)
    /\ Join(Lib, FooTxt) \in DOMAIN files
    /\ Join(Lib, fooAltHpp) \in DOMAIN files0

\* the command line names the directory of the tree as its root
ValidRoot == Len(argv) >= 1 /\ argv[1] = Root
\* the arguments after the root are --exclude or --revert, each with its value
WellFormedArgs ==
    /\ Len(argv) % 2 = 1
    /\ \A i \in 2..Len(argv) : (i % 2 = 0) => argv[i] \in {ExcludeFlag, RevertFlag}
\* nothing has been done to the tree and nothing is reported
Untouched ==
    /\ files = files0 /\ uuid = 0
    /\ renamed_files = <<>> /\ skipped_files = <<>> /\ reverted_files = <<>>

\* C11 as claimed: main exits non-zero when the root is not a valid directory,
\* before any change to the tree, and exits zero in every invocation with a
\* valid root.
C11_ExitStatus ==
    pc = "exit" => /\ status = (IF ValidRoot THEN 0 ELSE 1)
                   /\ status # 0 => Untouched

\* C11 as amended: main exits with status 1, before any change to the tree, when
\* no root is given, when the root is not a directory, or when an argument after
\* the root is not --exclude or --revert followed by its value; in every other
\* invocation it exits with status 0, whatever failed for single files.
C11_ExitStatusArgs ==
    pc = "exit" => /\ status = (IF ValidRoot /\ WellFormedArgs THEN 0 ELSE 1)
                   /\ status # 0 => Untouched

\* C11 witness: the script has exited with status 0 after a run that skipped a
\* file on a failure.
C11_Witness ==
    /\ pc = "exit" /\ status = 0
    /\ skipped_files # <<>>
    /\ ValidRoot

\* the plan the second pass is at, its source path and its intermediate path
PlanNow == files_to_rename[idx]
SourceNow == PlanNow[1]
TempNow == TempPath(SourceNow, uuid)
\* the step skips the plan it is at, on a raise in one of the given steps
SkipsIn(steps) ==
    /\ pc = "apply" /\ idx <= Len(files_to_rename)
    /\ Len(skipped_files') = Len(skipped_files) + 1
    /\ skipped_files'[Len(skipped_files')][2] \in steps

\* the bytes of the source file are where they were, or under the intermediate name
SourceRecoverable ==
    \/ SourceNow \in DOMAIN files' /\ files'[SourceNow] = files[SourceNow]
    \/ /\ SourceNow \notin DOMAIN files'
       /\ TempNow \in DOMAIN files' /\ files'[TempNow] = files[SourceNow]

\* C12 as claimed: compensation on failure: when a forward plan is skipped on a
\* raise in one of the steps 1-4 of the renaming procedure (step 4 being the
\* comparison, 4 here, and the removal or renaming of the backup, 5 here), the
\* bytes of the source file are afterwards at the source path, or else (the
\* compensating rename having failed) at the intermediate name.
C12_Compensation ==
    [][(SkipsIn(1..5) /\ SourceNow \in DOMAIN files)
          => \/ SourceNow \in DOMAIN files' /\ files'[SourceNow] = files[SourceNow]
             \/ /\ SourceNow \notin DOMAIN files'
                /\ TempNow \in DOMAIN files' /\ files'[TempNow] = files[SourceNow]]_vars

\* C12 as amended: a skipped plan is recorded under its source path; after a
\* raise in steps 1-3 the bytes of the source file are at the source path or,
\* the compensating rename having failed, at the intermediate name; after a
\* raise in step 4 there is no intermediate file to rename back: the bytes of
\* the source file stay at the lowercase path and the file that was there stays
\* under its backup name.
C12_CompensationSteps ==
    [][(SkipsIn(1..5) /\ SourceNow \in DOMAIN files)
          => /\ skipped_files'[Len(skipped_files')][1] = SourceNow
             /\ SkipsIn(1..3) => SourceRecoverable
             /\ SkipsIn(4..5) =>
                   /\ SourceNow \notin DOMAIN files' /\ TempNow \notin DOMAIN files'
                   /\ files'[PlanNow[2]] = files[SourceNow]
                   /\ files'[BackupPath(PlanNow[2], uuid + 1)] = files[PlanNow[2]]]_vars

\* the file name is that of an intermediate file
IsTempName(f) == StartsWith(f, TempPrefix)
\* the file name is that of a backup file
IsBackupName(f) == StartsWith(f, BackupPrefix)

\* C12 witness: a run has ended in which a plan was skipped on a raise in step 3
\* and the compensating rename failed, the file being left under the
\* intermediate name.
C12_Witness ==
    /\ pc = "done"
    /\ \E i \in 1..Len(skipped_files) :
          /\ skipped_files[i][2] = 3
          /\ skipped_files[i][1] \notin DOMAIN files
    /\ \E p \in DOMAIN files : IsTempName(Basename(p))

\* C13: restore on failure: when a forward plan is skipped on a raise after the
\* file at the lowercase path was renamed to its backup name, and the
\* compensating rename has put the source file back, the file that was at the
\* lowercase path is there again with its bytes and no backup file remains.
C13_RestoreOnFailure ==
    [][(/\ SkipsIn(3..5)
        /\ SourceNow \in DOMAIN files /\ PlanNow[2] \in DOMAIN files
        /\ SourceNow \in DOMAIN files')
          => /\ PlanNow[2] \in DOMAIN files'
             /\ files'[PlanNow[2]] = files[PlanNow[2]]
             /\ \A p \in DOMAIN files' : ~IsBackupName(Basename(p))]_vars

\* the call renames a file to a name that differs from its own only in case
CaseOnly(call) == Lower(call.dst) = Lower(call.src) /\ call.dst # call.src
\* the name the call renames to is, in any case, none of the directory's names
FreshName(call) == \A f \in call.names : Lower(f) # Lower(Basename(call.dst))
\* the os.rename calls the second pass makes for one plan, in order, each with
\* the tree it is made on: steps 1 to 3 as in ApplyPlan, the rename of the backup
\* to the _alt name, the rename of the except clause
ApplyCalls(fs, plan, last_filename, n, k, rf) ==
    LET filepath == plan[1]
        lowercase_filepath == plan[2]
        temp_filepath == TempPath(filepath, n)
        backup_filepath == BackupPath(lowercase_filepath, n + 1)
        e1 == k = 1 \/ ~Exists(fs, filepath)
        fs1 == IF e1 THEN fs ELSE Rename(fs, filepath, temp_filepath)
        backup == ~e1 /\ Exists(fs1, lowercase_filepath)
        e2 == backup /\ k = 2
        fs2 == IF backup /\ ~e2 THEN Rename(fs1, lowercase_filepath, backup_filepath) ELSE fs1
        e3 == ~e1 /\ ~e2 /\ k = 3
        fs3 == IF e1 \/ e2 \/ e3 THEN fs2 ELSE Rename(fs2, temp_filepath, lowercase_filepath)
        compare == backup /\ ~e2 /\ ~e3
        differ == compare /\ k # 4 /\ ~Identical(fs3, backup_filepath, lowercase_filepath)
        \* a raise leaves the tree as step 3 left it
        raised == e1 \/ e2 \/ e3 \/ (compare /\ k \in {4, 5})
    IN  <<RenameCall(fs, filepath, temp_filepath)>>
        \o (IF backup THEN <<RenameCall(fs1, lowercase_filepath, backup_filepath)>> ELSE <<>>)
        \o (IF ~e1 /\ ~e2 THEN <<RenameCall(fs2, temp_filepath, lowercase_filepath)>>
            ELSE <<>>)
        \o (IF differ
            THEN <<RenameCall(fs3, backup_filepath, AltPath(lowercase_filepath, last_filename))>>
            ELSE <<>>)
        \o (IF raised /\ Exists(fs3, temp_filepath)
            THEN <<RenameCall(fs3, temp_filepath, filepath)>>
            ELSE <<>>)
\* the os.rename calls one try block of the revert makes, in order
RevertCalls(fs, filepath, original_path, n, k, rf) ==
    LET temp_filepath == TempPath(filepath, n)
        e1 == k = 1 \/ ~Exists(fs, filepath)
        fs1 == IF e1 THEN fs ELSE Rename(fs, filepath, temp_filepath)
        e2 == ~e1 /\ k = 2
        fs2 == IF e1 \/ e2 THEN fs1 ELSE Rename(fs1, temp_filepath, original_path)
    IN  <<RenameCall(fs, filepath, temp_filepath)>>
        \o (IF ~e1 THEN <<RenameCall(fs1, temp_filepath, original_path)>> ELSE <<>>)
        \o (IF (e1 \/ e2) /\ Exists(fs2, temp_filepath)
            THEN <<RenameCall(fs2, temp_filepath, filepath)>>
            ELSE <<>>)

\* no call is a rename between two case variants of one name; the first call
\* moves the file at source to a fresh intermediate name and no later call has
\* the source as its source; from the intermediate name the file goes to target
\* or, in the except clause, back to source; a file moved aside goes to a fresh
\* backup name
Routed(calls, source, target) ==
    /\ \A i \in 1..Len(calls) : ~CaseOnly(calls[i])
    /\ calls[1].src = source
    /\ IsTempName(Basename(calls[1].dst)) /\ FreshName(calls[1])
    /\ \A i \in 2..Len(calls) :
          /\ calls[i].src # source
          /\ calls[i].src = calls[1].dst => calls[i].dst \in {target, source}
          /\ IsBackupName(Basename(calls[i].dst)) => FreshName(calls[i])
\* the names the revert of the file at the head of the walk may rename it to
RevertTargets ==
    IF SimilarFiles(files, Head(rq)) # {} THEN SimilarFiles(files, Head(rq))
    ELSE Viable(files, Head(rq), tried)

\* C14: case-aliasing route: whatever operation raises, the renames a forward
\* plan or a revert makes never go from a name to a case variant of it in one
\* call: the file goes to an intermediate name that no name of the directory
\* equals, even case-insensitively, and from there to its target.
C14_CaseAliasingRoute ==
    /\ (pc = "apply" /\ idx <= Len(files_to_rename))
          => \A k \in 0..5, rf \in BOOLEAN :
                LET r == ApplyPlan(files, PlanNow, lowercase_filename, uuid, k, rf)
                IN  r.used => Routed(ApplyCalls(files, PlanNow, lowercase_filename, uuid, k, rf),
                                     PlanNow[1], PlanNow[2])
    /\ (pc = "revert" /\ rq # <<>>)
          => \A original_name \in RevertTargets, k \in 0..2, rf \in BOOLEAN :
                LET original_path == Join(Dirname(Head(rq)), original_name)
                    r == RevertRename(files, Head(rq), original_path, uuid, k, rf)
                IN  r.used => Routed(RevertCalls(files, Head(rq), original_path, uuid, k, rf),
                                     Head(rq), original_path)

\* C14 witness: on a case-insensitive filesystem a plan has been renamed, a file
\* has been reverted, and a further plan is about to be applied.
C14_Witness ==
    /\ ci
    /\ pc = "apply" /\ idx <= Len(files_to_rename)
    /\ renamed_files # <<>>
    /\ reverted_files # <<>>

\* the first guess, in the order the guesses are generated, that does not exist
FirstFree(fs, filepath) ==
    LET list == GuessList(Basename(filepath))
        free == {i \in 1..Len(list) : ~Exists(fs, Join(Dirname(filepath), list[i]))}
    IN  list[CHOOSE i \in free : \A j \in free : i <= j]

\* C15: candidate order: a lowercase source file without a case-variant sibling
\* is reverted, at the first try, to the first guess in the order
\* capitalize-first-letter, all-uppercase, camelCase, PascalCase that does not
\* exist, so that the target is determined by the name and the directory.
C15_CandidateOrder ==
    [][(/\ pc = "revert" /\ rq # <<>> /\ tried = {}
        /\ SimilarFiles(files, Head(rq)) = {}
        /\ Len(reverted_files') = Len(reverted_files) + 1)
          => reverted_files'[Len(reverted_files')]
                = <<Head(rq), Join(Dirname(Head(rq)), FirstFree(files, Head(rq)))>>]_vars

\* C16: conflicted outcome: when a plan is applied whose lowercase path held a
\* file of different bytes, the entry the returned lists get for it holds the
\* lowercase path and the path the displaced file was kept at, and is not the
\* (source, lowercase path) pair a plain rename is recorded as.
C16_ConflictedOutcome ==
    [][(/\ pc = "apply" /\ idx <= Len(files_to_rename)
        /\ Len(renamed_files') = Len(renamed_files) + 1
        /\ SourceNow \in DOMAIN files /\ PlanNow[2] \in DOMAIN files
        /\ files[PlanNow[2]] # files[SourceNow])
          => LET entry == renamed_files'[Len(renamed_files')]
             IN  /\ \E i \in 1..Len(entry) : entry[i] = PlanNow[2]
                 /\ \E i \in 1..Len(entry) : entry[i] = AltPath(PlanNow[2], lowercase_filename)
                 /\ entry # PlanNow]_vars

\* the directory is one of the excluded directories or lies below one of them
SegmentExcluded(d) ==
    \E i \in 1..Len(exclude_dirs) :
        d = exclude_dirs[i] \/ StartsWith(d, exclude_dirs[i] \o <<"/">>)

\* C17: segment-aware exclusion: the first pass skips a directory if and only if
\* it is an excluded directory or a descendant of one, so the plans are the
\* non-lowercase source files of all the other directories; /r/libfoo is not
\* excluded by /r/lib.
C17_SegmentExclusion ==
    [][(pc = "revert" /\ pc' = "apply")
          => Firsts(files_to_rename')
                = {p \in DOMAIN files : /\ IsSource(Basename(p))
                                        /\ Basename(p) # Lower(Basename(p))
                                        /\ ~SegmentExcluded(Dirname(p))}]_vars

\* C18: no leftover intermediates: when a run (revert, forward, or both) ends in
\* which no filesystem operation raised, no file of the tree has an
\* intermediate (temp_) or a backup (backup_) name.
C18_NoLeftovers ==
    (pc = "done" /\ faults = 0 /\ skipped_files = <<>>)
        => \A p \in DOMAIN files :
              ~IsTempName(Basename(p)) /\ ~IsBackupName(Basename(p))

\* C18 witness: a run without a raise has ended that reverted a file and
\* renamed a file, each through an intermediate name.
C18_Witness ==
    /\ pc = "done" /\ faults = 0 /\ skipped_files = <<>>
    /\ reverted_files # <<>> /\ renamed_files # <<>>
    /\ uuid >= 2

\* the stem of the file name holds no underscore
PlainStem(filename) ==
    \A i \in 1..Len(SplitExt(filename)[1]) : SplitExt(filename)[1][i] # "_"

\* C19: on a filesystem with case-insensitive lookup, the revert of a lowercase
\* source file whose stem holds no underscore renames nothing: every guess is
\* a case variant of the name and is seen as existing, so the step leaves the
\* tree, the reverted list and the count of tokens as they are.
C19_CaseInsensitiveRevert ==
    [][(ci /\ pc = "revert" /\ rq # <<>> /\ PlainStem(Basename(Head(rq))))
          => /\ files' = files
             /\ reverted_files' = reverted_files
             /\ uuid' = uuid]_vars

\* C19 witness: on a case-insensitive filesystem the revert walk has gone past
\* foo.hpp, which is where and what it was, while no failure was injected.
C19_Witness ==
    /\ ci /\ faults = 0
    /\ pc = "revert" /\ rd = 1 /\ rq = <<>>
    /\ Join(Lib, fooHpp) \in RevertFiles(files0, Lib)
    /\ Join(Lib, fooHpp) \in DOMAIN files
    /\ reverted_files = <<>>

====
